---- MODULE Spec2Model ----
(***************************************************************************)
(* A model of the CoinGecko v3 client (v3/v3.go).                          *)
(*                                                                         *)
(* Go strings supplied by the caller (ids, currencies, dates, API keys)    *)
(* are sequences of one-character strings, so that lower-casing, joining   *)
(* and query escaping are computed character by character.  Literal query  *)
(* keys, path templates and base URLs are TLA+ strings.                    *)
(*                                                                         *)
(* A call is split at its single suspension point, the wait for the HTTP   *)
(* response inside client.Do: the operation's action runs the handler up   *)
(* to that point, and Deliver / Abort run it from there to its return.     *)
(***************************************************************************)
EXTENDS Integers, Sequences, FiniteSets, TLC

VARIABLES client, built, call

vars == <<client, built, call>>

(***************************************************************************)
(* Bounds of the model.                                                    *)
(***************************************************************************)
NumCallers == 2
PageSlack == 1
MaxPage == 1

(***************************************************************************)
(* Program constants.                                                      *)
(***************************************************************************)
StatusOK == 200
PerPageLimit == 250

baseURL == "https://api.coingecko.com/api/v3"
proURL == "https://pro-api.coingecko.com/api/v3"
mockURL == "http://127.0.0.1:8080"

(***************************************************************************)
(* Strings.                                                                *)
(***************************************************************************)
Uppers == <<"A","B","C","D","E","F","G","H","I","J","K","L","M",
            "N","O","P","Q","R","S","T","U","V","W","X","Y","Z">>
Lowers == <<"a","b","c","d","e","f","g","h","i","j","k","l","m",
            "n","o","p","q","r","s","t","u","v","w","x","y","z">>
Digits == <<"0","1","2","3","4","5","6","7","8","9">>
HexDigits == {Digits[i] : i \in 1..10} \cup {"a","b","c","d","e","f","A","B","C","D","E","F"}

ToLowerChar(ch) ==
    IF \E i \in 1..26 : Uppers[i] = ch
    THEN Lowers[CHOOSE i \in 1..26 : Uppers[i] = ch]
    ELSE ch

\* strings.ToLower
ToLower(s) == [i \in 1..Len(s) |-> ToLowerChar(s[i])]

RECURSIVE Join(_, _)
\* strings.Join
Join(list, sep) ==
    IF Len(list) = 0 THEN <<>>
    ELSE IF Len(list) = 1 THEN list[1]
    ELSE list[1] \o sep \o Join(Tail(list), sep)

RECURSIVE NatDigits(_)
NatDigits(n) ==
    IF n < 10 THEN <<Digits[n + 1]>>
    ELSE NatDigits(n \div 10) \o <<Digits[(n % 10) + 1]>>

\* format.Int2String: the decimal text of an int
Int2String(n) == IF n < 0 THEN <<"-">> \o NatDigits(-n) ELSE NatDigits(n)

\* format.Bool2String, and fmt.Sprintf("%v", b) for a bool b
Bool2String(b) == IF b THEN <<"t","r","u","e">> ELSE <<"f","a","l","s","e">>

Unreserved(ch) ==
    \/ \E i \in 1..26 : Uppers[i] = ch \/ Lowers[i] = ch
    \/ \E i \in 1..10 : Digits[i] = ch
    \/ ch \in {"-", "_", ".", "~"}

\* url.QueryEscape of one character
EscapeChar(ch) ==
    CASE Unreserved(ch) -> <<ch>>
      [] ch = " " -> <<"+">>
      [] ch = "," -> <<"%","2","C">>
      [] ch = "%" -> <<"%","2","5">>
      [] ch = "/" -> <<"%","2","F">>
      [] ch = "?" -> <<"%","3","F">>

RECURSIVE QueryEscape(_)
QueryEscape(s) ==
    IF Len(s) = 0 THEN <<>> ELSE EscapeChar(Head(s)) \o QueryEscape(Tail(s))

(***************************************************************************)
(* url.Values: the (key, value) pairs in the order they were added, and    *)
(* Encode, which emits them sorted by key with the values escaped.         *)
(***************************************************************************)
KeyOrder == <<"community_data", "date", "days", "developer_data", "ids",
              "include_platform", "localization", "market_data", "order",
              "page", "per_page", "price_change_percentage", "sparkline",
              "tickers", "vs_currencies", "vs_currency">>

Add(params, key, value) == Append(params, [k |-> key, v |-> value])

EscapePairs(ps) == [i \in 1..Len(ps) |-> [k |-> ps[i].k, v |-> QueryEscape(ps[i].v)]]

RECURSIVE EncodeFrom(_, _)
EncodeFrom(params, i) ==
    IF i > Len(KeyOrder) THEN <<>>
    ELSE EscapePairs(SelectSeq(params, LAMBDA p : p.k = KeyOrder[i]))
            \o EncodeFrom(params, i + 1)

Encode(params) == EncodeFrom(params, 1)

\* the values a query carries for a key, in order
QueryValues(query, key) ==
    LET hits == SelectSeq(query, LAMBDA p : p.k = key)
    IN  [i \in 1..Len(hits) |-> hits[i].v]

(***************************************************************************)
(* Errors and nil.                                                         *)
(***************************************************************************)
Nil == [t |-> "nil"]
NoErr == [kind |-> "none"]
Text(s) == [text |-> s]
Err(kind, msg) == [kind |-> kind, msg |-> msg]

(***************************************************************************)
(* The client and its construction.                                        *)
(***************************************************************************)
\* NewClientWithURL: a nil transport is replaced by http.DefaultClient
NewClientWithURL(httpClient, url, apiKey) ==
    [httpClient |-> IF httpClient = "nil" THEN "DefaultClient" ELSE httpClient,
     apiKey |-> apiKey,
     url |-> url]

NewClientInvertedTier(httpClient, apiKey) ==
    NewClientWithURL(httpClient, IF apiKey = <<>> THEN proURL ELSE baseURL, apiKey)

\* NewClient: the pro host exactly when a key is given
NewClient(httpClient, apiKey) ==
    NewClientWithURL(httpClient, IF apiKey # <<>> THEN proURL ELSE baseURL, apiKey)

(***************************************************************************)
(* Request URLs.  fmt.Sprintf(format, base, id, query) is kept as the      *)
(* record of its format and arguments; the text it denotes is the format   *)
(* with the arguments substituted, id unescaped.                           *)
(***************************************************************************)
Sprintf(format, base, id, query) ==
    [fmt |-> format, base |-> base, id |-> id, query |-> query]

NoURL == Sprintf("", "", <<>>, <<>>)

Built(url) == [err |-> NoErr, url |-> url]
Invalid(msg) == [err |-> Err("validation", Text(msg)), url |-> NoURL]

\* types.OrderTypeObject.MarketCapDesc
MarketCapDesc == <<"m","a","r","k","e","t","_","c","a","p","_","d","e","s","c">>

PingURL(c) == Built(Sprintf("%s/ping", c.url, <<>>, <<>>))

SimplePriceURL(c, ids, vsCurrencies) ==
    LET idsParam == Join(ids, <<",">>)
        vsCurrenciesParam == Join(vsCurrencies, <<",">>)
        params == Add(Add(<<>>, "ids", idsParam), "vs_currencies", vsCurrenciesParam)
    IN  Built(Sprintf("%s/simple/price?%s", c.url, <<>>, Encode(params)))

SimpleSinglePriceURL(c, id, vsCurrency) ==
    SimplePriceURL(c, <<ToLower(id)>>, <<ToLower(vsCurrency)>>)

SimpleSupportedVSCurrenciesURL(c) ==
    Built(Sprintf("%s/simple/supported_vs_currencies", c.url, <<>>, <<>>))

CoinsListURL(c, includePlatform) ==
    LET params == Add(<<>>, "include_platform", Bool2String(includePlatform))
    IN  Built(Sprintf("%s/coins/list?%s", c.url, <<>>, Encode(params)))

PerPageOffByOne(perPage) == perPage > 0 /\ perPage < PerPageLimit

\* CoinsMarket: the condition under which per_page and page are sent
PerPageInRange(perPage) == perPage > 0 /\ perPage <= PerPageLimit

CoinsMarketParams(vsCurrency, ids, order, perPage, page, sparkline, priceChangePercentage) ==
    LET p1 == Add(<<>>, "vs_currency", vsCurrency)
        p2 == Add(p1, "order", IF Len(order) = 0 THEN MarketCapDesc ELSE order)
        p3 == IF Len(ids) # 0 THEN Add(p2, "ids", Join(ids, <<",">>)) ELSE p2
        p4 == IF PerPageInRange(perPage)
              THEN Add(Add(p3, "per_page", Int2String(perPage)), "page", Int2String(page))
              ELSE p3
        p5 == Add(p4, "sparkline", Bool2String(sparkline))
    IN  IF Len(priceChangePercentage) # 0
        THEN Add(p5, "price_change_percentage", Join(priceChangePercentage, <<",">>))
        ELSE p5

CoinsMarketURL(c, vsCurrency, ids, order, perPage, page, sparkline, priceChangePercentage) ==
    IF Len(vsCurrency) = 0 THEN Invalid("vs_currency is required")
    ELSE Built(Sprintf("%s/coins/markets?%s", c.url, <<>>,
                       Encode(CoinsMarketParams(vsCurrency, ids, order, perPage, page,
                                                sparkline, priceChangePercentage))))

\* CoinsID: the six flags as added to the query (localization carries sparkline)
CoinsIDParams(localization, tickers, marketData, communityData, developerData, sparkline) ==
    LET p1 == Add(<<>>, "localization", Bool2String(sparkline))
        p2 == Add(p1, "tickers", Bool2String(tickers))
        p3 == Add(p2, "market_data", Bool2String(marketData))
        p4 == Add(p3, "community_data", Bool2String(communityData))
        p5 == Add(p4, "developer_data", Bool2String(developerData))
    IN  Add(p5, "sparkline", Bool2String(sparkline))

CoinsIDURL(c, id, localization, tickers, marketData, communityData, developerData, sparkline) ==
    IF Len(id) = 0 THEN Invalid("id is required")
    ELSE Built(Sprintf("%s/coins/%s?%s", c.url, id,
                       Encode(CoinsIDParams(localization, tickers, marketData,
                                            communityData, developerData, sparkline))))

CoinsIDTickersURL(c, id, page) ==
    IF Len(id) = 0 THEN Invalid("id is required")
    ELSE LET params == IF page > 0 THEN Add(<<>>, "page", Int2String(page)) ELSE <<>>
         IN  Built(Sprintf("%s/coins/%s/tickers?%s", c.url, id, Encode(params)))

CoinsIDHistoryURL(c, id, date, localization) ==
    IF Len(id) = 0 \/ Len(date) = 0 THEN Invalid("id and date is required")
    ELSE LET params == Add(Add(<<>>, "date", date), "localization", Bool2String(localization))
         IN  Built(Sprintf("%s/coins/%s/history?%s", c.url, id, Encode(params)))

CoinsIDMarketChartURL(c, id, vs_currency, days) ==
    IF Len(id) = 0 \/ Len(vs_currency) = 0 \/ Len(days) = 0
    THEN Invalid("id, vs_currency, and days is required")
    ELSE LET params == Add(Add(<<>>, "vs_currency", vs_currency), "days", days)
         IN  Built(Sprintf("%s/coins/%s/market_chart?%s", c.url, id, Encode(params)))

EventsCountriesURL(c) == Built(Sprintf("%s/events/countries", c.url, <<>>, <<>>))
EventsTypesURL(c) == Built(Sprintf("%s/events/types", c.url, <<>>, <<>>))
ExchangeRatesURL(c) == Built(Sprintf("%s/exchange_rates", c.url, <<>>, <<>>))
AssetPlatformsURL(c) == Built(Sprintf("%s/asset_platforms", c.url, <<>>, <<>>))
GlobalURL(c) == Built(Sprintf("%s/global", c.url, <<>>, <<>>))

(***************************************************************************)
(* MakeReq up to the call of client.Do.                                    *)
(***************************************************************************)
\* url.Parse inside http.NewRequestWithContext: a "%" in the path must start
\* a two-digit hexadecimal escape.  The id is the only caller-supplied text in
\* the path, and the text after it starts with "/" or "?" or ends the path.
URLParses(url) ==
    \A i \in 1..Len(url.id) :
        url.id[i] = "%" =>
            /\ i + 2 <= Len(url.id)
            /\ url.id[i + 1] \in HexDigits
            /\ url.id[i + 2] \in HexDigits

NoReq == [method |-> "", url |-> NoURL, ctx |-> 0, header |-> {}]

\* 0 stands for context.Background(), which is never cancelled
RequestCtxDropped(ctx) == 0

\* the context http.NewRequestWithContext binds to the request
RequestCtx(ctx) == ctx

\* MakeReq: the key header, set only for a non-empty key
Header(c) ==
    IF c.apiKey # <<>>
    THEN {[name |-> "X-Cg-Pro-Api-Key", value |-> c.apiKey]}
    ELSE {}

NewRequestWithContext(c, ctx, url) ==
    IF ~URLParses(url)
    THEN [err |-> Err("request", Text("invalid URL escape")), req |-> NoReq]
    ELSE [err |-> NoErr,
          req |-> [method |-> "GET", url |-> url, ctx |-> RequestCtx(ctx),
                   header |-> Header(c)]]

(***************************************************************************)
(* doReq from the return of client.Do.  An outcome is what the transport   *)
(* hands back: an error from Do, an error while reading the body, or a     *)
(* response with its status and body.                                      *)
(***************************************************************************)
DoErr(cause) == [t |-> "doErr", cause |-> cause]
ReadErr(status) == [t |-> "readErr", status |-> status]
Resp(status, body) == [t |-> "resp", status |-> status, body |-> body]

EmptyBody == [json |-> "empty"]
InvalidBody == [json |-> "invalid"]
NullBody == [json |-> "null"]
MismatchBody == [json |-> "mismatch"]
EmptyMap == [k \in {} |-> 0]
MatchBody(m) == [json |-> "match", prices |-> m]

BodyLen0(body) == body = EmptyBody

IsSuccess2xx(status) == status >= 200 /\ status <= 299

\* doReq: 200 != resp.StatusCode is the failure test
IsSuccess(status) == status = StatusOK

ErrorTextStatusOnly(status, body) == [error_code |-> status]

\* doReq: the text of the error for a failure status
ErrorText(status, body) ==
    IF ~BodyLen0(body) THEN [raw |-> body] ELSE [error_code |-> status]

doReq(o) ==
    CASE o.t = "doErr" -> [body |-> Nil, err |-> Err("transport", Text(o.cause))]
      [] o.t = "readErr" -> [body |-> Nil, err |-> Err("transport", Text("read"))]
      [] o.t = "resp" ->
            IF ~IsSuccess(o.status)
            THEN [body |-> Nil, err |-> Err("api", ErrorText(o.status, o.body))]
            ELSE [body |-> o.body, err |-> NoErr]

(***************************************************************************)
(* json.Unmarshal and the operations from the return of MakeReq.           *)
(***************************************************************************)
Ret(result, err) == [t |-> "return", result |-> result, err |-> err]
Panic == [t |-> "panic"]
NoOut == [t |-> "none"]

Data == [t |-> "data"]
Zero == [t |-> "zero"]

\* json.Unmarshal(resp, &data) for a nil pointer, slice or map data: the
\* literal null leaves data nil and is no error
Unmarshal(body) ==
    CASE body.json \in {"empty", "invalid"} -> [err |-> Err("decode", Text("syntax")), val |-> Nil]
      [] body.json = "mismatch" -> [err |-> Err("decode", Text("type")), val |-> Nil]
      [] body.json = "null" -> [err |-> NoErr, val |-> Nil]
      [] body.json = "match" -> [err |-> NoErr, val |-> Data]

\* Ping, SimpleSupportedVSCurrencies, CoinsList, CoinsMarket, CoinsID,
\* CoinsIDTickers, CoinsIDHistory, EventsTypes, AssetPlatforms: return data
DecodeFinish(r) ==
    IF r.err # NoErr THEN Ret(Nil, r.err)
    ELSE LET d == Unmarshal(r.body)
         IN  IF d.err # NoErr THEN Ret(Nil, d.err) ELSE Ret(d.val, NoErr)

\* EventsCountries, ExchangeRates, Global: return a field of *data
FieldFinish(r) ==
    IF r.err # NoErr THEN Ret(Nil, r.err)
    ELSE LET d == Unmarshal(r.body)
         IN  IF d.err # NoErr THEN Ret(Nil, d.err)
             ELSE IF d.val = Nil THEN Panic
             ELSE Ret(Data, NoErr)

\* CoinsIDMarketChart: decodes into a struct value and returns its address
CoinsIDMarketChartFinish(r) ==
    IF r.err # NoErr THEN Ret(Nil, r.err)
    ELSE LET d == Unmarshal(r.body)
         IN  IF d.err # NoErr THEN Ret(Zero, d.err)
             ELSE IF d.val = Nil THEN Ret(Zero, NoErr)
             ELSE Ret(Data, NoErr)

Prices(m) == [t |-> "prices", m |-> m]

\* SimplePrice: decodes into a map
SimplePriceFinish(r) ==
    IF r.err # NoErr THEN Ret(Nil, r.err)
    ELSE LET d == Unmarshal(r.body)
         IN  IF d.err # NoErr THEN Ret(Nil, d.err)
             ELSE IF d.val = Nil THEN Ret(Prices(EmptyMap), NoErr)
             ELSE Ret(Prices(r.body.prices), NoErr)

\* a Go map read: the zero value for a missing key
Lookup(m, key, zero) == IF key \in DOMAIN m THEN m[key] ELSE zero

SimpleSinglePriceFinish(r, id, vsCurrency) ==
    LET t == SimplePriceFinish(r)
    IN  IF t.err # NoErr THEN Ret(Nil, t.err)
        ELSE LET curr == Lookup(t.result.m, id, EmptyMap)
             IN  IF DOMAIN curr = {}
                 THEN Ret(Nil, Err("notfound", Text("id or vsCurrency not existed")))
                 ELSE Ret([t |-> "single", ID |-> id, Currency |-> vsCurrency,
                           MarketPrice |-> Lookup(curr, vsCurrency, 0)], NoErr)

PriceOps == {"SimpleSinglePrice", "SimplePrice"}
FieldOps == {"EventsCountries", "ExchangeRates", "Global"}

Finish(op, args, r) ==
    CASE op = "SimpleSinglePrice" -> SimpleSinglePriceFinish(r, args.id, args.vsCurrency)
      [] op = "SimplePrice" -> SimplePriceFinish(r)
      [] op = "CoinsIDMarketChart" -> CoinsIDMarketChartFinish(r)
      [] op \in FieldOps -> FieldFinish(r)
      [] OTHER -> DecodeFinish(r)

(***************************************************************************)
(* Inputs.                                                                 *)
(***************************************************************************)
Callers == 1..NumCallers
Bools == {TRUE, FALSE}
ApiKeys == {<<>>, <<"k">>}
Transports == {"nil", "custom"}
URLs == {mockURL}
Strs == {<<>>, <<"b">>, <<"B">>, <<"%">>}
Ids == {<<>>, <<"b">>, <<"%">>}
Curs == {<<>>, <<"u">>, <<"E">>}
VsCurs == {<<>>, <<"u">>}
Lists == {<<>>, <<<<"b">>>>, <<<<"b">>, <<"B">>>>}
IdLists == {<<>>, <<<<"b">>, <<"B">>>>}
CurLists == {<<>>, <<<<"u">>>>}
Dates == {<<>>, <<"3","0","-","1","2">>}
Days == {<<>>, <<"1">>}
Windows == {<<>>, <<<<"1","h">>, <<"7","d">>>>}
Orders == {<<>>, <<"v">>}
PerPages == ((0 - PageSlack)..PageSlack)
                \cup ((PerPageLimit - PageSlack)..(PerPageLimit + PageSlack))
Pages == (0 - 1)..MaxPage
Statuses == {StatusOK, 201, 404, 500}

PriceIds == {<<"b">>, <<"B">>}
PriceCurs == {<<"u">>, <<"e">>}
PriceValues == {0, 7}
InnerMaps == UNION {[D -> PriceValues] : D \in SUBSET PriceCurs}
PriceMaps == UNION {[D -> InnerMaps] : D \in SUBSET PriceIds}

Bodies(op) ==
    {EmptyBody, InvalidBody, NullBody, MismatchBody}
        \cup IF op \in PriceOps THEN {MatchBody(m) : m \in PriceMaps}
             ELSE {MatchBody(EmptyMap)}

Outcomes(op) ==
    {DoErr("dial")} \cup {ReadErr(StatusOK)}
        \cup {Resp(st, b) : st \in Statuses, b \in Bodies(op)}

(***************************************************************************)
(* State: the shared client, the constructor call that built it, and each  *)
(* caller's call: where it stands (pc), its operation and arguments, the   *)
(* request handed to client.Do (req) and how many were (sent), whether its *)
(* context is cancelled, what the transport handed back (resp), what       *)
(* MakeReq returned (got) and what the operation returned (out).           *)
(***************************************************************************)
NoResp == [t |-> "none"]
NoGot == [t |-> "none"]

IdleCall == [pc |-> "idle", op |-> "", args |-> [none |-> TRUE], req |-> NoReq,
             sent |-> 0, cancelled |-> FALSE, resp |-> NoResp, got |-> NoGot,
             out |-> NoOut]

Init ==
    /\ \E h \in Transports, k \in ApiKeys :
          \/ /\ client = NewClient(h, k)
             /\ built = [ctor |-> "NewClient", httpClient |-> h, url |-> "", apiKey |-> k]
          \/ \E u \in URLs :
                /\ client = NewClientWithURL(h, u, k)
                /\ built = [ctor |-> "NewClientWithURL", httpClient |-> h, url |-> u,
                            apiKey |-> k]
    /\ call = [c \in Callers |-> IdleCall]

ReceiverStoresURL(c, url) == [c EXCEPT !.url = url.fmt]

\* what a method leaves in the receiver: no method assigns to a field of c
ReceiverAfter(c, url) == c

\* An operation from its entry to its first return or to client.Do:
\* u is the outcome of its validation and URL construction.
Begin(c, op, args, u) ==
    /\ call[c].pc = "idle"
    /\ IF u.err # NoErr
       THEN call' = [call EXCEPT ![c] =
                [IdleCall EXCEPT !.pc = "done", !.op = op, !.args = args,
                                 !.out = Ret(Nil, u.err)]]
       ELSE LET m == NewRequestWithContext(client, c, u.url)
                got == [body |-> Nil, err |-> m.err]
            IN  IF m.err # NoErr
                THEN call' = [call EXCEPT ![c] =
                        [IdleCall EXCEPT !.pc = "done", !.op = op, !.args = args,
                                         !.got = got, !.out = Finish(op, args, got)]]
                ELSE call' = [call EXCEPT ![c] =
                        [IdleCall EXCEPT !.pc = "waiting", !.op = op, !.args = args,
                                         !.req = m.req, !.sent = 1]]
    /\ client' = ReceiverAfter(client, u.url)
    /\ UNCHANGED built

Ping(c) == Begin(c, "Ping", [none |-> TRUE], PingURL(client))

SimpleSinglePrice(c, id, vsCurrency) ==
    Begin(c, "SimpleSinglePrice", [id |-> id, vsCurrency |-> vsCurrency],
          SimpleSinglePriceURL(client, id, vsCurrency))

SimplePrice(c, ids, vsCurrencies) ==
    Begin(c, "SimplePrice", [ids |-> ids, vsCurrencies |-> vsCurrencies],
          SimplePriceURL(client, ids, vsCurrencies))

SimpleSupportedVSCurrencies(c) ==
    Begin(c, "SimpleSupportedVSCurrencies", [none |-> TRUE],
          SimpleSupportedVSCurrenciesURL(client))

CoinsList(c, includePlatform) ==
    Begin(c, "CoinsList", [includePlatform |-> includePlatform],
          CoinsListURL(client, includePlatform))

CoinsMarket(c, vsCurrency, ids, order, perPage, page, sparkline, priceChangePercentage) ==
    Begin(c, "CoinsMarket",
          [vsCurrency |-> vsCurrency, ids |-> ids, order |-> order, perPage |-> perPage,
           page |-> page, sparkline |-> sparkline,
           priceChangePercentage |-> priceChangePercentage],
          CoinsMarketURL(client, vsCurrency, ids, order, perPage, page, sparkline,
                         priceChangePercentage))

CoinsID(c, id, localization, tickers, marketData, communityData, developerData, sparkline) ==
    Begin(c, "CoinsID",
          [id |-> id, localization |-> localization, tickers |-> tickers,
           marketData |-> marketData, communityData |-> communityData,
           developerData |-> developerData, sparkline |-> sparkline],
          CoinsIDURL(client, id, localization, tickers, marketData, communityData,
                     developerData, sparkline))

CoinsIDTickers(c, id, page) ==
    Begin(c, "CoinsIDTickers", [id |-> id, page |-> page], CoinsIDTickersURL(client, id, page))

CoinsIDHistory(c, id, date, localization) ==
    Begin(c, "CoinsIDHistory", [id |-> id, date |-> date, localization |-> localization],
          CoinsIDHistoryURL(client, id, date, localization))

CoinsIDMarketChart(c, id, vs_currency, days) ==
    Begin(c, "CoinsIDMarketChart", [id |-> id, vs_currency |-> vs_currency, days |-> days],
          CoinsIDMarketChartURL(client, id, vs_currency, days))

EventsCountries(c) == Begin(c, "EventsCountries", [none |-> TRUE], EventsCountriesURL(client))
EventsTypes(c) == Begin(c, "EventsTypes", [none |-> TRUE], EventsTypesURL(client))
ExchangeRates(c) == Begin(c, "ExchangeRates", [none |-> TRUE], ExchangeRatesURL(client))
AssetPlatforms(c) == Begin(c, "AssetPlatforms", [none |-> TRUE], AssetPlatformsURL(client))
Global(c) == Begin(c, "Global", [none |-> TRUE], GlobalURL(client))

\* client.Do returns outcome o; doReq and the operation run to their return
Complete(c, o) ==
    /\ call' = [call EXCEPT ![c].pc = "done",
                            ![c].resp = o,
                            ![c].got = doReq(o),
                            ![c].out = Finish(call[c].op, call[c].args, doReq(o))]
    /\ UNCHANGED <<client, built>>

\* the transport hands back a response or fails
Deliver(c, o) ==
    /\ call[c].pc = "waiting"
    /\ ~call[c].cancelled
    /\ Complete(c, o)

\* the caller cancels the context of its call (or its deadline passes)
Cancel(c) ==
    /\ call[c].pc = "waiting"
    /\ ~call[c].cancelled
    /\ call' = [call EXCEPT ![c].cancelled = TRUE]
    /\ UNCHANGED <<client, built>>

\* client.Do returns the context's error once the request's context is done
Abort(c) ==
    /\ call[c].pc = "waiting"
    /\ call[c].cancelled
    /\ call[c].req.ctx = c
    /\ Complete(c, DoErr("context canceled"))

\* the caller takes the result; its next call starts from here
Return(c) ==
    /\ call[c].pc = "done"
    /\ call' = [call EXCEPT ![c] = IdleCall]
    /\ UNCHANGED <<client, built>>

Idle(c) == call[c].pc = "idle"
Waiting(c) == call[c].pc = "waiting"

\* One caller issuing its calls one after the other, over all the inputs.
Next ==
    \E c \in {1} :
        \/ Idle(c) /\ Ping(c)
        \/ Idle(c) /\ \E id \in Strs, cur \in Curs : SimpleSinglePrice(c, id, cur)
        \/ Idle(c) /\ \E ids \in Lists, curs \in CurLists : SimplePrice(c, ids, curs)
        \/ Idle(c) /\ SimpleSupportedVSCurrencies(c)
        \/ Idle(c) /\ \E b \in Bools : CoinsList(c, b)
        \/ Idle(c) /\ \E vs \in VsCurs, ids \in IdLists, order \in Orders,
                         perPage \in PerPages, page \in Pages, sparkline \in Bools,
                         pcp \in Windows :
                            CoinsMarket(c, vs, ids, order, perPage, page, sparkline, pcp)
        \/ Idle(c) /\ \E id \in Ids, l \in Bools, t \in Bools, m \in Bools, cd \in Bools,
                         d \in Bools, s \in Bools : CoinsID(c, id, l, t, m, cd, d, s)
        \/ Idle(c) /\ \E id \in Ids, page \in Pages : CoinsIDTickers(c, id, page)
        \/ Idle(c) /\ \E id \in Ids, date \in Dates, l \in Bools :
                            CoinsIDHistory(c, id, date, l)
        \/ Idle(c) /\ \E id \in Ids, vs \in VsCurs, days \in Days :
                            CoinsIDMarketChart(c, id, vs, days)
        \/ Idle(c) /\ EventsCountries(c)
        \/ Idle(c) /\ EventsTypes(c)
        \/ Idle(c) /\ ExchangeRates(c)
        \/ Idle(c) /\ AssetPlatforms(c)
        \/ Idle(c) /\ Global(c)
        \/ Waiting(c) /\ \E o \in Outcomes(call[c].op) : Deliver(c, o)
        \/ Cancel(c)
        \/ Abort(c)
        \/ Return(c)

Spec == Init /\ [][Next]_vars

(***************************************************************************)
(* Concurrent callers on the one shared client, over a small set of calls. *)
(***************************************************************************)
ConcOutcomes(op) ==
    {DoErr("dial"), Resp(StatusOK, NullBody), Resp(500, EmptyBody)}
        \cup IF op \in PriceOps
             THEN {Resp(StatusOK, MatchBody([i \in {<<"b">>} |-> [k \in {<<"u">>} |-> 7]]))}
             ELSE {Resp(StatusOK, MatchBody(EmptyMap))}

ConcNext ==
    \E c \in Callers :
        \/ Idle(c) /\ Ping(c)
        \/ Idle(c) /\ SimpleSinglePrice(c, <<"b">>, <<"u">>)
        \/ Idle(c) /\ \E id \in {<<>>, <<"b">>} : CoinsIDTickers(c, id, 1)
        \/ Waiting(c) /\ \E o \in ConcOutcomes(call[c].op) : Deliver(c, o)
        \/ Cancel(c)
        \/ Abort(c)
        \/ Return(c)

ConcSpec == Init /\ [][ConcNext]_vars

\* client.Do returns once the context of its request is done, so a cancelled
\* call that waits is eventually aborted.
LiveSpec == Init /\ [][Next]_vars /\ WF_vars(Abort(1))

(***************************************************************************)
(* Helpers of the properties.                                              *)
(***************************************************************************)
Started(c) == call[c].pc # "idle"
Done(c) == call[c].pc = "done"
Sent(c) == call[c].sent = 1
Responded(c) == Done(c) /\ call[c].resp.t = "resp"
Query(c) == call[c].req.url.query

DigitValue(ch) == CHOOSE d \in 0..9 : Digits[d + 1] = ch

RECURSIVE NatValue(_)
NatValue(s) ==
    IF Len(s) = 0 THEN 0
    ELSE 10 * NatValue(SubSeq(s, 1, Len(s) - 1)) + DigitValue(s[Len(s)])

\* the integer a decimal text denotes
ParseInt(s) == IF s[1] = "-" THEN 0 - NatValue(Tail(s)) ELSE NatValue(s)

\* the required parameters of the operations that validate their input
ValidatedOps == {"CoinsMarket", "CoinsID", "CoinsIDTickers", "CoinsIDHistory",
                 "CoinsIDMarketChart"}

Required(op, args) ==
    CASE op = "CoinsMarket" -> {args.vsCurrency}
      [] op = "CoinsID" -> {args.id}
      [] op = "CoinsIDTickers" -> {args.id}
      [] op = "CoinsIDHistory" -> {args.id, args.date}
      [] op = "CoinsIDMarketChart" -> {args.id, args.vs_currency, args.days}

\* the client the constructor call recorded in built returns
Constructed ==
    IF built.ctor = "NewClient" THEN NewClient(built.httpClient, built.apiKey)
    ELSE NewClientWithURL(built.httpClient, built.url, built.apiKey)

URLOf(cl, op, a) ==
    CASE op = "Ping" -> PingURL(cl)
      [] op = "SimpleSinglePrice" -> SimpleSinglePriceURL(cl, a.id, a.vsCurrency)
      [] op = "CoinsIDTickers" -> CoinsIDTickersURL(cl, a.id, a.page)

KeyHeader(k) == {[name |-> "X-Cg-Pro-Api-Key", value |-> k]}

(***************************************************************************)
(* C1.  SimpleSinglePrice(id, cur), for non-empty id and cur and any       *)
(* response of the price endpoint, returns the cell [id][cur] of the map   *)
(* SimplePrice decodes from that response when the cell is present, and an *)
(* error when the cell is absent (the id is missing, or the currency is    *)
(* missing under the id).                                                  *)
(***************************************************************************)
SinglePriceIsTheCell ==
    \A c \in Callers :
        (/\ Done(c) /\ Sent(c)
         /\ call[c].op = "SimpleSinglePrice"
         /\ call[c].args.id # <<>> /\ call[c].args.vsCurrency # <<>>
         /\ SimplePriceFinish(call[c].got).err = NoErr)
        => LET m == SimplePriceFinish(call[c].got).result.m
               id == call[c].args.id
               cur == call[c].args.vsCurrency
               out == call[c].out
           IN  IF id \in DOMAIN m /\ cur \in DOMAIN m[id]
               THEN /\ out.t = "return" /\ out.err = NoErr
                    /\ out.result.MarketPrice = m[id][cur]
               ELSE /\ out.t = "return" /\ out.err # NoErr /\ out.result = Nil

(***************************************************************************)
(* C2.  A response whose status is not the success status makes the        *)
(* request primitive return an error and no body; the error's text is the  *)
(* raw body when the body is non-empty and otherwise a text carrying the   *)
(* status code; the operation returns that error with a nil result.        *)
(***************************************************************************)
FailureStatusGivesError ==
    \A c \in Callers :
        (Responded(c) /\ call[c].resp.status # 200)
        => /\ call[c].got.body = Nil
           /\ call[c].got.err.kind = "api"
           /\ IF call[c].resp.body # EmptyBody
              THEN call[c].got.err.msg = [raw |-> call[c].resp.body]
              ELSE call[c].got.err.msg = [error_code |-> call[c].resp.status]
           /\ call[c].out = Ret(Nil, call[c].got.err)

FailureStatusWitness ==
    \E c \in Callers :
        /\ Responded(c)
        /\ call[c].resp.status = 404
        /\ call[c].resp.body # EmptyBody
        /\ call[c].got.err.kind = "api"
        /\ call[c].got.err.msg = [raw |-> call[c].resp.body]

(***************************************************************************)
(* C3 as stated.  Every status from 200 through 299 is a success: the      *)
(* request primitive returns the body without error; any other status is   *)
(* an API failure.                                                         *)
(***************************************************************************)
Every2xxIsSuccess ==
    \A c \in Callers :
        Responded(c)
        => IF call[c].resp.status >= 200 /\ call[c].resp.status <= 299
           THEN call[c].got = [body |-> call[c].resp.body, err |-> NoErr]
           ELSE call[c].got.body = Nil /\ call[c].got.err.kind = "api"

(***************************************************************************)
(* C3 as amended.  Status 200 alone is a success: the request primitive    *)
(* returns the body without error; every other status, 201 through 299     *)
(* included, is an API failure.                                            *)
(***************************************************************************)
Only200IsSuccess ==
    \A c \in Callers :
        Responded(c)
        => IF call[c].resp.status = 200
           THEN call[c].got = [body |-> call[c].resp.body, err |-> NoErr]
           ELSE call[c].got.body = Nil /\ call[c].got.err.kind = "api"

Only200Witness ==
    \E c \in Callers :
        /\ Responded(c)
        /\ call[c].resp.status = 201
        /\ call[c].got.err.kind = "api"

(***************************************************************************)
(* C4.  The query of CoinsID, for a non-empty id, carries each of          *)
(* localization, tickers, market_data, community_data, developer_data and  *)
(* sparkline exactly once, as "true" or "false" according to the argument  *)
(* of the same name.                                                       *)
(***************************************************************************)
CoinsIDFlagsFollowArguments ==
    \A c \in Callers :
        (Started(c) /\ call[c].op = "CoinsID" /\ call[c].args.id # <<>> /\ Sent(c))
        => LET a == call[c].args
               Flag(key, b) ==
                    QueryValues(Query(c), key)
                        = <<IF b THEN <<"t","r","u","e">> ELSE <<"f","a","l","s","e">>>>
           IN  /\ Flag("localization", a.localization)
               /\ Flag("tickers", a.tickers)
               /\ Flag("market_data", a.marketData)
               /\ Flag("community_data", a.communityData)
               /\ Flag("developer_data", a.developerData)
               /\ Flag("sparkline", a.sparkline)

(***************************************************************************)
(* C5.  The query of CoinsMarket, for a non-empty vsCurrency, carries      *)
(* neither per_page nor page when perPage <= 0 or perPage > 250, and       *)
(* carries both, once each, with the values perPage and page, when         *)
(* 0 < perPage <= 250.                                                     *)
(***************************************************************************)
CoinsMarketPaging ==
    \A c \in Callers :
        (Started(c) /\ call[c].op = "CoinsMarket" /\ call[c].args.vsCurrency # <<>>)
        => LET a == call[c].args
               perPages == QueryValues(Query(c), "per_page")
               pages == QueryValues(Query(c), "page")
           IN  /\ Sent(c)
               /\ IF a.perPage <= 0 \/ a.perPage > 250
                  THEN perPages = <<>> /\ pages = <<>>
                  ELSE /\ Len(perPages) = 1 /\ ParseInt(perPages[1]) = a.perPage
                       /\ Len(pages) = 1 /\ ParseInt(pages[1]) = a.page

CoinsMarketPagingWitness ==
    \E c \in Callers :
        /\ Started(c) /\ call[c].op = "CoinsMarket" /\ Sent(c)
        /\ call[c].args.perPage = 250
        /\ call[c].args.page = 0 - 1
        /\ QueryValues(Query(c), "per_page") = <<<<"2","5","0">>>>
        /\ QueryValues(Query(c), "page") = <<<<"-","1">>>>

(***************************************************************************)
(* C6.  An operation with a required parameter empty returns a validation  *)
(* error with a nil result and issues no GET; with all its required        *)
(* parameters non-empty it issues exactly one GET.                         *)
(***************************************************************************)
RequiredParametersDecideTheGet ==
    \A c \in Callers :
        (Started(c) /\ call[c].op \in ValidatedOps)
        => IF <<>> \in Required(call[c].op, call[c].args)
           THEN /\ Done(c)
                /\ call[c].sent = 0
                /\ call[c].out.t = "return"
                /\ call[c].out.result = Nil
                /\ call[c].out.err.kind = "validation"
           ELSE call[c].sent = 1

(***************************************************************************)
(* C7.  No operation panics, whatever the body of a status-200 response:   *)
(* it returns a result or an error.                                        *)
(***************************************************************************)
NoOperationPanics ==
    \A c \in Callers : Done(c) => call[c].out.t = "return"

(***************************************************************************)
(* C8.  A client built by NewClient(transport, apiKey) sends every request *)
(* to the pro base URL with the header X-Cg-Pro-Api-Key: apiKey when       *)
(* apiKey is non-empty, and to the public base URL without that header     *)
(* when apiKey is empty.                                                   *)
(***************************************************************************)
NewClientSelectsTier ==
    built.ctor = "NewClient"
    => \A c \in Callers :
          Sent(c)
          => IF built.apiKey # <<>>
             THEN /\ call[c].req.url.base = "https://pro-api.coingecko.com/api/v3"
                  /\ call[c].req.header = KeyHeader(built.apiKey)
             ELSE /\ call[c].req.url.base = "https://api.coingecko.com/api/v3"
                  /\ call[c].req.header = {}

NewClientSelectsTierWitness ==
    /\ built.ctor = "NewClient"
    /\ built.apiKey = <<"k">>
    /\ \E c \in Callers :
          /\ Sent(c)
          /\ call[c].req.url.base = proURL
          /\ call[c].req.header = KeyHeader(<<"k">>)

(***************************************************************************)
(* C9.  A call whose context is cancelled while it waits for the response  *)
(* eventually returns, with an error and a nil result.                     *)
(***************************************************************************)
CancelledCallReturns ==
    \A c \in Callers :
        (Waiting(c) /\ call[c].cancelled)
        ~> (/\ Done(c)
            /\ call[c].out.t = "return"
            /\ call[c].out.err # NoErr
            /\ call[c].out.result = Nil)

CancelledCallReturnsWitness ==
    \E c \in Callers :
        /\ Done(c)
        /\ call[c].cancelled
        /\ call[c].resp = DoErr("context canceled")
        /\ call[c].out = Ret(Nil, Err("transport", Text("context canceled")))

(***************************************************************************)
(* C10.  No operation modifies the client, so under any interleaving of    *)
(* concurrent callers the client is the one the constructor returned, each *)
(* call's request is the one it builds from that client when run alone,    *)
(* and its result is the one its own response maps to.                     *)
(***************************************************************************)
ConcurrentCallsAsAlone ==
    /\ client = Constructed
    /\ \A c \in Callers :
          Sent(c)
          => call[c].req
                = NewRequestWithContext(Constructed, c,
                                        URLOf(Constructed, call[c].op, call[c].args).url).req
    /\ \A c \in Callers :
          (Done(c) /\ Sent(c))
          => call[c].out = Finish(call[c].op, call[c].args, doReq(call[c].resp))

ConcurrentCallsWitness ==
    \E c1 \in Callers, c2 \in Callers :
        /\ c1 # c2
        /\ Waiting(c1) /\ call[c1].op = "SimpleSinglePrice"
        /\ Done(c2) /\ Sent(c2) /\ call[c2].op = "CoinsIDTickers"
        /\ call[c2].out.err.kind = "api"

====
